---------------------------- MODULE Spec2Model ----------------------------
(***************************************************************************)
(* A model of the TableOfContents component of edbzn.dev                   *)
(* (src/src/components/theme-toggle.js, lines 131-281): the flattening of  *)
(* the nested heading tree, the IntersectionObserver effect that tracks    *)
(* the active heading, and the nested list that is rendered from them.     *)
(*                                                                         *)
(* JavaScript values are tagged records, so that undefined, null, strings  *)
(* and arrays stay distinct; a string is a sequence of one-character       *)
(* strings, so that String.prototype.replace is computed, not assumed.     *)
(***************************************************************************)
EXTENDS Naturals, Sequences, FiniteSets, TLC

(***************************************************************************)
(* Bounds of the model.                                                    *)
(***************************************************************************)
\* nodes of a heading tree given to flatten alone
MaxFlatNodes == 3
\* intersection entries queued and not yet delivered, over all observers
MaxQueue == 2
\* changes of the headings prop during the life of the component
MaxChanges == 1

(***************************************************************************)
(* JavaScript values.                                                      *)
(***************************************************************************)
Undef == [t |-> "undefined"]

Null == [t |-> "null"]

Str(s) == [t |-> "string", v |-> s]

Arr(xs) == [t |-> "array", v |-> xs]

\* a heading node { url, items } as produced by the MDX table of contents
Node(url, items) == [t |-> "object", url |-> url, items |-> items]

\* the empty string '', which is also the initial activeId
EmptyStr == Str(<< >>)

\* JavaScript truthiness, as used by !items, item.items, || and filter(Boolean)
Truthy(x) ==
  CASE x.t = "undefined" -> FALSE
    [] x.t = "null" -> FALSE
    [] x.t = "string" -> x.v # << >>
    [] OTHER -> TRUE

\* the outcome of an evaluation: a value, or a thrown TypeError
Ok(v) == [ok |-> TRUE, v |-> v]

Throw == [ok |-> FALSE, v |-> << >>]

(***************************************************************************)
(* s.replace('#', ''): removes the FIRST '#' of s, wherever it stands.     *)
(***************************************************************************)
replace(s) ==
  LET hashes == {i \in 1..Len(s) : s[i] = "#"}
  IN  IF hashes = {} THEN s
      ELSE LET i == CHOOSE k \in hashes : \A j \in hashes : k <= j
           IN  SubSeq(s, 1, i - 1) \o SubSeq(s, i + 1, Len(s))

\* item.url?.replace('#', ''): undefined when url is undefined or null
optReplace(url) ==
  IF url.t \in {"undefined", "null"} THEN Undef ELSE Str(replace(url.v))

\* an id that keeps the fragment marker: item.url || ''
flatIdUnstripped(url) == IF Truthy(url) THEN url ELSE EmptyStr

\* the id of a flattened entry: item.url?.replace('#', '') || ''
flatId(url) ==
  LET r == optReplace(url) IN IF Truthy(r) THEN r ELSE EmptyStr

(***************************************************************************)
(* flatten: items.reduce over the nodes, each node pushed before the       *)
(* flattening of its items.  A truthy value that is no array has no reduce *)
(* method: the call throws.                                                *)
(***************************************************************************)
RECURSIVE flatten(_)
RECURSIVE flattenReduce(_, _, _)
RECURSIVE flattenReduceChildrenFirst(_, _, _)

\* flattenReduce pushing a node after the flattening of its items
flattenReduceChildrenFirst(items, i, acc) ==
  IF i > Len(items) THEN Ok(acc)
  ELSE LET item == items[i]
           entry == [id |-> flatId(item.url), url |-> item.url]
       IN  IF Truthy(item.items)
           THEN LET sub == flatten(item.items)
                IN  IF sub.ok
                    THEN flattenReduceChildrenFirst(items, i + 1,
                                                    Append(acc \o sub.v, entry))
                    ELSE Throw
           ELSE flattenReduceChildrenFirst(items, i + 1, Append(acc, entry))

\* the reduce callback applied to items[i..], acc being the accumulator
flattenReduce(items, i, acc) ==
  IF i > Len(items) THEN Ok(acc)
  ELSE LET item == items[i]
           pushed == Append(acc, [id |-> flatId(item.url), url |-> item.url])
       IN  IF Truthy(item.items)
           THEN LET sub == flatten(item.items)
                IN  IF sub.ok THEN flattenReduce(items, i + 1, pushed \o sub.v)
                    ELSE Throw
           ELSE flattenReduce(items, i + 1, pushed)

flatten(items) ==
  IF ~Truthy(items) THEN Ok(<< >>)
  ELSE IF items.t # "array" THEN Throw
  ELSE flattenReduce(items.v, 1, << >>)

\* the useMemo without its Array.isArray guard
flatHeadingsMemoUnguarded(h) == flatten(h)

\* the body of the useMemo: Array.isArray(headings) guards the call
flatHeadingsMemo(h) ==
  IF h.t # "array" THEN Ok(<< >>) ELSE flatten(h)


(***************************************************************************)
(* The inputs: heading trees and the elements of the page.                 *)
(***************************************************************************)
HashA == Str(<<"#", "a">>)

HashB == Str(<<"#", "b">>)

HashA1 == Str(<<"#", "a", "1">>)

\* an anchor that is only the fragment marker (a heading with an empty slug)
Hash == Str(<<"#">>)

RECURSIVE Forests(_, _, _)

\* the trees of exactly k nodes, with urls of U; a leaf's items is one of L
Trees(U, L, k) ==
  IF k = 1 THEN {Node(u, l) : u \in U, l \in L}
  ELSE {Node(u, Arr(c)) : u \in U, c \in Forests(U, L, k - 1)}

\* the ordered forests of exactly n nodes
Forests(U, L, n) ==
  IF n = 0 THEN {<< >>}
  ELSE UNION {{<<t>> \o f : t \in Trees(U, L, k), f \in Forests(U, L, n - k)} :
              k \in 1..n}

\* headings values that are no array
NonArrays == {Undef, Null, Str(<<"x">>)}

\* a tree whose node has a truthy items that is no array
Malformed == Arr(<<Node(HashA, Str(<<"x">>))>>)

\* the headings prop of the mounted component
HeadingInputs ==
  NonArrays
    \cup {Arr(<< >>),
          Arr(<<Node(HashA, Undef)>>),
          Arr(<<Node(HashB, Undef)>>),
          Arr(<<Node(HashA, Undef), Node(HashB, Undef)>>),
          Arr(<<Node(HashA, Arr(<<Node(HashB, Undef)>>))>>),
          Arr(<<Node(HashA, Undef), Node(HashA, Undef)>>),
          Arr(<<Node(Hash, Undef)>>),
          Arr(<<Node(Undef, Undef)>>),
          Malformed}

\* the inputs of flatten taken alone
FlatInputs ==
  NonArrays
    \cup {Arr(f) : f \in UNION {Forests({HashA, HashA1, HashB}, {Undef, Arr(<< >>)}, n) :
                                n \in 0..MaxFlatNodes}}
    \cup {Arr(<<Node(Undef, Undef)>>), Arr(<<Node(Hash, Undef)>>), Malformed}

\* the ids of the heading elements the page may hold, one element per id
DomIds == {<<"a">>, <<"b">>}

Element(id) == [t |-> "element", id |-> id]

\* document.getElementById(id) on a document holding the elements of d
getElementById(d, id) ==
  IF id.t = "string" /\ id.v \in d THEN Element(id.v) ELSE Null

Range(s) == {s[i] : i \in 1..Len(s)}

(***************************************************************************)
(* The state of one TableOfContents instance and of its environment.       *)
(***************************************************************************)
VARIABLES
  headings,      \* the headings prop
  flatHeadings,  \* the memoized flattened list
  activeId,      \* useState('')
  isOpen,        \* useState(false)
  mounted,       \* the component is mounted
  err,           \* an exception was thrown by the component's code
  dom,           \* the ids of the elements attached to the document
  observers,     \* the IntersectionObservers created: observed targets, queued entries
  cleanup,       \* the cleanup closure returned by the last effect run
  changes,       \* number of changes of the headings prop so far
  seen,          \* an intersecting entry has reached the mounted component
  last,          \* the last step and what it saw: an effect run ("setup"), a
                 \* delivery, a toggle, a click, or another step
  env,           \* where the component is rendered: a browser, the static
                 \* build (server), a DOM without IntersectionObserver
  layout,        \* the page: where each heading element lies, its CSS scroll
                 \* margin, the height of the page
  scrollY,       \* the scroll position of the viewport
  scrollTo,      \* the scroll requested by the last scrollIntoView
  reported,      \* per element, what the observer last reported of it
  theme,         \* ThemeToggle: useState('system')
  themeMounted,  \* ThemeToggle: useState(false), the mounted flag
  dataTheme,     \* the data-theme attribute of the root element
  storage,       \* the value of the localStorage key 'theme'
  storageOk,     \* localStorage can be used (it throws when it cannot)
  phase,         \* the page: loading, init script run, ThemeToggle mounted
  themeErr,      \* an exception left the code of ThemeToggle
  scriptErr,     \* an exception left the theme-init script
  chosen,        \* the theme the last toggle selected, if any
  trail,         \* the themes the last toggles started from (at most three)
  giscusTheme,   \* BlogPostTemplate: useState('light'), the comments theme
  giscusMounted, \* BlogPostTemplate is mounted and its effect has run
  moConnected,   \* its MutationObserver observes the root element
  mqListening,   \* its 'change' listener is on the media query
  pendingMutation, \* a data-theme mutation record awaits the observer callback
  pendingScheme, \* a 'change' event of the media query awaits its listeners
  systemDark,    \* (prefers-color-scheme: dark) matches
  experiences,   \* Resume: the experiences prop
  showAll        \* Resume: useState(false)

\* the state of TableOfContents and of its page
tocVars == <<headings, flatHeadings, activeId, isOpen, mounted, err, dom,
             observers, cleanup, changes, seen, last, env,
             layout, scrollY, scrollTo, reported>>

\* the state of ThemeToggle and of the theme stores
themeVars == <<theme, themeMounted, dataTheme, storage, storageOk, phase,
               themeErr, scriptErr, chosen, trail>>

\* the state of the comments theme of BlogPostTemplate
giscusVars == <<giscusTheme, giscusMounted, moConnected, mqListening,
                pendingMutation, pendingScheme, systemDark>>

\* the state of Resume
resumeVars == <<experiences, showAll>>

vars == <<tocVars, themeVars, giscusVars, resumeVars>>

\* the geometry of the page
scrollVars == <<layout, scrollY, scrollTo, reported>>

\* what the steps of TableOfContents in the browser leave alone
rest == <<env, scrollVars, themeVars, giscusVars, resumeVars>>

\* a page whose geometry plays no part
NoLayout ==
  [y |-> [id \in DomIds |-> 0], h |-> 0, margin |-> 0, page |-> 0, viewport |-> 0]

NoScroll == [set |-> FALSE]

NoneReported == [id \in DomIds |-> "none"]

ScrollIdle ==
  /\ layout = NoLayout
  /\ scrollY = 0
  /\ scrollTo = NoScroll
  /\ reported = NoneReported

\* an attribute or a storage key that is not set (getItem gives null)
Absent == "(absent)"

\* a page without ThemeToggle
ThemeIdle ==
  /\ theme = "system"
  /\ themeMounted = FALSE
  /\ dataTheme = Absent
  /\ storage = Absent
  /\ storageOk = TRUE
  /\ phase = "none"
  /\ themeErr = FALSE
  /\ scriptErr = FALSE
  /\ chosen = Absent
  /\ trail = << >>

\* a page without BlogPostTemplate
GiscusIdle ==
  /\ giscusTheme = "light"
  /\ giscusMounted = FALSE
  /\ moConnected = FALSE
  /\ mqListening = FALSE
  /\ pendingMutation = FALSE
  /\ pendingScheme = FALSE
  /\ systemDark = FALSE

\* a page without Resume
ResumeIdle ==
  /\ experiences = << >>
  /\ showAll = FALSE

\* the components outside TableOfContents are not on the page
OutsideIdle == ThemeIdle /\ GiscusIdle /\ ResumeIdle

NoCleanup == [set |-> FALSE]

\* a lookup that gives up at the first id without an element
headingElementsUntilMissing(flat, d) ==
  LET found == [i \in 1..Len(flat) |-> getElementById(d, flat[i].id)]
      missing == {i \in 1..Len(flat) : ~Truthy(found[i])}
  IN  IF missing = {} THEN found
      ELSE SubSeq(found, 1, (CHOOSE i \in missing : \A j \in missing : i <= j) - 1)

\* flatHeadings.map(({ id }) => document.getElementById(id)).filter(Boolean)
headingElements(flat, d) ==
  SelectSeq([i \in 1..Len(flat) |-> getElementById(d, flat[i].id)],
            LAMBDA e : Truthy(e))

\* the effect body: nothing when no element is found, else a new observer
\* observing every element found; <<observers, cleanup closure>>
effect(flat, d, obs) ==
  LET els == headingElements(flat, d)
  IN  IF Len(els) = 0 THEN <<obs, NoCleanup>>
      ELSE <<Append(obs, [targets |-> {e.id : e \in Range(els)}, queue |-> << >>]),
             [set |-> TRUE, observer |-> Len(obs) + 1, elements |-> els]>>

\* observer.unobserve(element); the entries already queued for the element
\* stay queued (the W3C processing model) or go with the observation
\* (engines that keep the entries with the observation): keep says which
unobserve(o, e, keep) ==
  [targets |-> o.targets \ {e.id},
   queue |-> IF keep THEN o.queue
             ELSE SelectSeq(o.queue, LAMBDA q : q.target # e.id)]

RECURSIVE unobserveEach(_, _, _, _)

unobserveEach(o, els, i, keep) ==
  IF i > Len(els) THEN o
  ELSE unobserveEach(unobserve(o, els[i], keep), els, i + 1, keep)

\* a cleanup that unobserves nothing
runCleanupNothing(c, obs, keep) == obs

\* a cleanup that unobserves the first element only
runCleanupFirstOnly(c, obs, keep) ==
  IF ~c.set THEN obs
  ELSE [obs EXCEPT ![c.observer] = unobserve(@, c.elements[1], keep)]

\* the cleanup closure c run against the observers obs
runCleanup(c, obs, keep) ==
  IF ~c.set THEN obs
  ELSE [obs EXCEPT ![c.observer] = unobserveEach(@, c.elements, 1, keep)]

TotalQueued(obs) ==
  LET RECURSIVE sum(_)
      sum(i) == IF i = 0 THEN 0 ELSE Len(obs[i].queue) + sum(i - 1)
  IN  sum(Len(obs))

(***************************************************************************)
(* The first render and the first effect run of the component given the    *)
(* headings h on a page holding the elements d: the values of the          *)
(* component's state after them.  A throw while rendering leaves the       *)
(* component unmounted.                                                    *)
(***************************************************************************)
firstRender(h, d) ==
  LET r == flatHeadingsMemo(h)
      e == effect(r.v, d, << >>)
  IN  [flatHeadings |-> r.v,
       err |-> ~r.ok,
       mounted |-> r.ok,
       observers |-> IF r.ok THEN e[1] ELSE << >>,
       cleanup |-> IF r.ok THEN e[2] ELSE NoCleanup]

Init ==
  \E h \in HeadingInputs, d \in SUBSET DomIds :
    LET m == firstRender(h, d)
    IN  /\ headings = h
        /\ dom = d
        /\ activeId = EmptyStr
        /\ isOpen = FALSE
        /\ changes = 0
        /\ seen = FALSE
        /\ flatHeadings = m.flatHeadings
        /\ err = m.err
        /\ mounted = m.mounted
        /\ observers = m.observers
        /\ cleanup = m.cleanup
        /\ last = [op |-> IF m.mounted THEN "setup" ELSE "other"]
        /\ env = "browser"
        /\ ScrollIdle
        /\ OutsideIdle

(***************************************************************************)
(* The parent re-renders with a new headings value: the memo is            *)
(* recomputed, the previous effect is cleaned up and the effect runs       *)
(* again.  A throw while rendering unmounts the component, which runs the  *)
(* cleanup.                                                                *)
(***************************************************************************)
\* a re-render that keeps the memoized list of the previous headings
SetHeadingsStaleMemo(h, keep) ==
  /\ UNCHANGED rest
  /\ mounted
  /\ changes < MaxChanges
  /\ changes' = changes + 1
  /\ headings' = h
  /\ last' = [op |-> "other"]
  /\ UNCHANGED <<flatHeadings, activeId, isOpen, mounted, err, dom, observers,
                 cleanup, seen>>

SetHeadings(h, keep) ==
  /\ UNCHANGED rest
  /\ mounted
  /\ changes < MaxChanges
  /\ changes' = changes + 1
  /\ LET r == flatHeadingsMemo(h)
         cleaned == runCleanup(cleanup, observers, keep)
         e == effect(r.v, dom, cleaned)
     IN  IF r.ok
         THEN /\ headings' = h
              /\ flatHeadings' = r.v
              /\ observers' = e[1]
              /\ cleanup' = e[2]
              /\ last' = [op |-> "setup"]
              /\ UNCHANGED <<mounted, err>>
         ELSE /\ err' = TRUE
              /\ mounted' = FALSE
              /\ observers' = cleaned
              /\ cleanup' = NoCleanup
              /\ last' = [op |-> "other"]
              /\ UNCHANGED <<headings, flatHeadings>>
  /\ UNCHANGED <<activeId, isOpen, dom, seen>>

\* the component is unmounted: the cleanup of the last effect run is called
Unmount(keep) ==
  /\ UNCHANGED rest
  /\ mounted
  /\ mounted' = FALSE
  /\ observers' = runCleanup(cleanup, observers, keep)
  /\ cleanup' = NoCleanup
  /\ last' = [op |-> "other"]
  /\ UNCHANGED <<headings, flatHeadings, activeId, isOpen, err, dom, changes,
                 seen>>

(***************************************************************************)
(* The browser computes whether the observed target id intersects the     *)
(* root-margin band (b) and queues an entry saying so: at its first        *)
(* observation, or when it crosses the band.                               *)
(***************************************************************************)
Notify(o, id, b) ==
  /\ UNCHANGED rest
  /\ o \in 1..Len(observers)
  /\ id \in observers[o].targets
  /\ TotalQueued(observers) < MaxQueue
  /\ observers' = [observers EXCEPT ![o].queue =
                     Append(@, [target |-> id, isIntersecting |-> b])]
  /\ last' = [op |-> "other"]
  /\ UNCHANGED <<headings, flatHeadings, activeId, isOpen, mounted, err, dom,
                 cleanup, changes, seen>>

RECURSIVE callback(_, _, _)
RECURSIVE callbackUnconditional(_, _, _)
RECURSIVE callbackResetting(_, _, _)

\* the callback without its isIntersecting test
callbackUnconditional(entries, i, a) ==
  IF i > Len(entries) THEN a
  ELSE callbackUnconditional(entries, i + 1, Str(entries[i].target))

\* a callback that clears activeId when the active heading leaves the band
callbackResetting(entries, i, a) ==
  IF i > Len(entries) THEN a
  ELSE callbackResetting(entries, i + 1,
         IF entries[i].isIntersecting THEN Str(entries[i].target)
         ELSE IF a = Str(entries[i].target) THEN EmptyStr ELSE a)

\* entries.forEach(entry => { if (entry.isIntersecting) setActiveId(entry.target.id) })
\* applied to the state value a

callback(entries, i, a) ==
  IF i > Len(entries) THEN a
  ELSE callback(entries, i + 1,
                IF entries[i].isIntersecting THEN Str(entries[i].target) ELSE a)

\* the browser delivers the queued entries of observer o to its callback; a
\* state update of an unmounted component is dropped by React
Deliver(o) ==
  /\ UNCHANGED rest
  /\ o \in 1..Len(observers)
  /\ observers[o].queue # << >>
  /\ observers' = [observers EXCEPT ![o].queue = << >>]
  /\ activeId' = (IF mounted THEN callback(observers[o].queue, 1, activeId)
                  ELSE activeId)
  /\ last' = [op |-> "deliver", entries |-> observers[o].queue,
              before |-> activeId,
              disposed |-> ~(cleanup.set /\ cleanup.observer = o)]
  /\ seen' = (seen \/ (mounted /\ \E i \in 1..Len(observers[o].queue) :
                                       observers[o].queue[i].isIntersecting))
  /\ UNCHANGED <<headings, flatHeadings, isOpen, mounted, err, dom, cleanup,
                 changes>>

\* a toggle that also forgets the active heading
ToggleResetting ==
  /\ UNCHANGED rest
  /\ mounted
  /\ Len(flatHeadings) > 0
  /\ isOpen' = ~isOpen
  /\ activeId' = EmptyStr
  /\ last' = [op |-> "toggle", before |-> isOpen]
  /\ UNCHANGED <<headings, flatHeadings, mounted, err, dom,
                 observers, cleanup, changes, seen>>

\* a button that only opens the panel: setIsOpen(true)
ToggleOpenOnly ==
  /\ UNCHANGED rest
  /\ mounted
  /\ Len(flatHeadings) > 0
  /\ isOpen' = TRUE
  /\ last' = [op |-> "toggle", before |-> isOpen]
  /\ UNCHANGED <<headings, flatHeadings, activeId, mounted, err, dom,
                 observers, cleanup, changes, seen>>

\* the toggle button: setIsOpen(!isOpen)
Toggle ==
  /\ UNCHANGED rest
  /\ mounted
  /\ Len(flatHeadings) > 0
  /\ isOpen' = ~isOpen
  /\ last' = [op |-> "toggle", before |-> isOpen]
  /\ UNCHANGED <<headings, flatHeadings, activeId, mounted, err, dom,
                 observers, cleanup, changes, seen>>

\* a heading element that the page did not hold yet is attached to the
\* document (content that arrives after the component was mounted)
Attach(id) ==
  /\ UNCHANGED rest
  /\ mounted
  /\ id \in DomIds \ dom
  /\ dom' = dom \cup {id}
  /\ last' = [op |-> "other"]
  /\ UNCHANGED <<headings, flatHeadings, activeId, isOpen, mounted, err,
                 observers, cleanup, changes, seen>>

(***************************************************************************)
(* What the component renders.                                             *)
(***************************************************************************)
\* a className test against the url itself: activeId === item.url
tocLinkActiveByUrl(a, item) == a = item.url

\* the className test of a link: activeId === item.url?.replace('#', '')
tocLinkActive(a, item) == a = optReplace(item.url)

RECURSIVE buildNestedList(_, _)

\* a list that renders the top level only
buildNestedListTopOnly(items, a) ==
  IF ~Truthy(items) \/ Len(items.v) = 0 THEN Null
  ELSE [t |-> "ol",
        li |-> [i \in 1..Len(items.v) |->
                 [href |-> items.v[i].url,
                  active |-> tocLinkActive(a, items.v[i]),
                  list |-> Null]]]

\* null for no items, else the <ol> with one <li> per item: its link and,
\* when item.items is a non-empty array, the nested list
buildNestedList(items, a) ==
  IF ~Truthy(items) \/ Len(items.v) = 0 THEN Null
  ELSE [t |-> "ol",
        li |-> [i \in 1..Len(items.v) |->
                 [href |-> items.v[i].url,
                  active |-> tocLinkActive(a, items.v[i]),
                  list |-> IF Truthy(items.v[i].items) /\ Len(items.v[i].items.v) > 0
                           THEN buildNestedList(items.v[i].items, a)
                           ELSE Null]]]

\* a render without the early return null
renderNoEarlyReturn(h, flat, a, open) ==
  [t |-> "nav", button |-> [expanded |-> open],
   content |-> IF h.t = "array" THEN buildNestedList(h, a) ELSE Null]

\* the element returned by TableOfContents: null when flatHeadings is empty,
\* else the nav with its toggle button and the nested list
render(h, flat, a, open) ==
  IF Len(flat) = 0 THEN Null
  ELSE [t |-> "nav", button |-> [expanded |-> open],
        content |-> buildNestedList(h, a)]

RECURSIVE links(_)
RECURSIVE linksFrom(_, _)

linksFrom(li, i) ==
  IF i > Len(li) THEN << >>
  ELSE <<[href |-> li[i].href, active |-> li[i].active]>>
         \o links(li[i].list) \o linksFrom(li, i + 1)

\* the links of a rendered list, in document order
links(ol) == IF ol.t = "ol" THEN linksFrom(ol.li, 1) ELSE << >>

\* the links of a rendered output
renderedLinks(out) == IF out.t = "nav" THEN links(out.content) ELSE << >>

\* what the component shows in the current state
output == IF mounted THEN render(headings, flatHeadings, activeId, isOpen) ELSE Null

(***************************************************************************)
(* A click on a rendered link.  The handler prevents the default           *)
(* navigation, derives the id from the item's url and asks the element of  *)
(* that id, if the document holds one, to scroll into view.                *)
(* getElementById(undefined) looks up the id "undefined", which no heading *)
(* element of the page carries.                                            *)
(***************************************************************************)
\* a handler that looks the element up by the url itself, '#' included
onClickNoStrip(item, d) ==
  LET id == item.url
      el == getElementById(d, id)
  IN  [defaultPrevented |-> TRUE,
       threw |-> FALSE,
       lookup |-> id,
       scrolls |-> IF el.t = "element"
                   THEN <<[target |-> el.id, behavior |-> "smooth", block |-> "start"]>>
                   ELSE << >>]

\* a handler without the optional chaining: item.url.replace and
\* getElementById(id).scrollIntoView throw a TypeError on undefined and null
onClickNoOptional(item, d) ==
  LET id == optReplace(item.url)
      el == getElementById(d, id)
  IN  [defaultPrevented |-> TRUE,
       threw |-> el.t # "element",
       lookup |-> id,
       scrolls |-> IF el.t = "element"
                   THEN <<[target |-> el.id, behavior |-> "smooth", block |-> "start"]>>
                   ELSE << >>]

\* e.preventDefault(); const id = item.url?.replace('#', '');
\* document.getElementById(id)?.scrollIntoView({ behavior: 'smooth', block: 'start' })
onClick(item, d) ==
  LET id == optReplace(item.url)
      el == getElementById(d, id)
  IN  [defaultPrevented |-> TRUE,
       threw |-> FALSE,
       lookup |-> id,
       scrolls |-> IF el.t = "element"
                   THEN <<[target |-> el.id, behavior |-> "smooth", block |-> "start"]>>
                   ELSE << >>]

\* a click that also makes the clicked heading the active one
ClickActivating(i) ==
  /\ UNCHANGED rest
  /\ mounted
  /\ i \in 1..Len(renderedLinks(output))
  /\ LET item == [url |-> renderedLinks(output)[i].href]
         r == onClick(item, dom)
     IN  /\ last' = [op |-> "click", link |-> i, url |-> item.url,
                     defaultPrevented |-> r.defaultPrevented,
                     threw |-> r.threw,
                     lookup |-> r.lookup, scrolls |-> r.scrolls]
         /\ activeId' = flatId(item.url)
  /\ UNCHANGED <<headings, flatHeadings, isOpen, mounted, err, dom,
                 observers, cleanup, changes, seen>>

\* the user clicks the i-th link of the rendered list
Click(i) ==
  /\ UNCHANGED rest
  /\ mounted
  /\ i \in 1..Len(renderedLinks(output))
  /\ LET item == [url |-> renderedLinks(output)[i].href]
         r == onClick(item, dom)
     IN  last' = [op |-> "click", link |-> i, url |-> item.url,
                  defaultPrevented |-> r.defaultPrevented,
                  threw |-> r.threw,
                  lookup |-> r.lookup, scrolls |-> r.scrolls]
  /\ UNCHANGED <<headings, flatHeadings, activeId, isOpen, mounted, err, dom,
                 observers, cleanup, changes, seen>>

(***************************************************************************)
(* flatten taken alone: the component before its first render, given any   *)
(* headings of FlatInputs, and its first render.                           *)
(***************************************************************************)
InitFlatten ==
  /\ headings \in FlatInputs
  /\ dom = DomIds
  /\ activeId = EmptyStr
  /\ isOpen = FALSE
  /\ changes = 0
  /\ seen = FALSE
  /\ flatHeadings = << >>
  /\ err = FALSE
  /\ mounted = FALSE
  /\ observers = << >>
  /\ cleanup = NoCleanup
  /\ last = [op |-> "unrendered"]
  /\ env = "browser"
  /\ ScrollIdle
  /\ OutsideIdle

FirstRender ==
  /\ UNCHANGED rest
  /\ last.op = "unrendered"
  /\ LET m == firstRender(headings, dom)
     IN  /\ flatHeadings' = m.flatHeadings
         /\ err' = m.err
         /\ mounted' = m.mounted
         /\ observers' = m.observers
         /\ cleanup' = m.cleanup
         /\ last' = [op |-> IF m.mounted THEN "setup" ELSE "other"]
  /\ UNCHANGED <<headings, dom, activeId, isOpen, changes, seen>>

NextFlatten == FirstRender

SpecFlatten == InitFlatten /\ [][NextFlatten]_vars

(***************************************************************************)
(* The first render in any environment.  The static build renders the      *)
(* component to HTML and runs no effect; a document without                *)
(* IntersectionObserver runs the effect, whose new IntersectionObserver    *)
(* throws a ReferenceError once an element was found; with no document at  *)
(* all, an effect that ran would throw at its first getElementById.        *)
(***************************************************************************)
Envs == {"browser", "server", "headless"}

\* a first render whose effect body runs in every environment
firstRenderInEffectAlways(e, h, d) ==
  LET r == flatHeadingsMemo(h)
      m == firstRender(h, d)
  IN  IF e = "browser" \/ ~r.ok THEN m @@ [lookups |-> IF r.ok THEN Len(r.v) ELSE 0]
      ELSE IF e = "server"
      THEN [flatHeadings |-> r.v, err |-> Len(r.v) > 0, mounted |-> FALSE,
            observers |-> << >>, cleanup |-> NoCleanup, lookups |-> 0]
      ELSE [flatHeadings |-> r.v,
            err |-> Len(headingElements(r.v, d)) > 0,
            mounted |-> Len(headingElements(r.v, d)) = 0,
            observers |-> << >>, cleanup |-> NoCleanup, lookups |-> Len(r.v)]

\* the state after the first render pass in environment e; lookups counts
\* the calls of document.getElementById
firstRenderIn(e, h, d) ==
  LET r == flatHeadingsMemo(h)
      m == firstRender(h, d)
  IN  IF e = "browser" \/ ~r.ok THEN m @@ [lookups |-> IF r.ok THEN Len(r.v) ELSE 0]
      ELSE IF e = "server"
      THEN [flatHeadings |-> r.v, err |-> FALSE, mounted |-> FALSE,
            observers |-> << >>, cleanup |-> NoCleanup, lookups |-> 0]
      ELSE [flatHeadings |-> r.v,
            err |-> Len(headingElements(r.v, d)) > 0,
            mounted |-> Len(headingElements(r.v, d)) = 0,
            observers |-> << >>, cleanup |-> NoCleanup, lookups |-> Len(r.v)]

InitEnv ==
  /\ env \in Envs
  /\ headings \in HeadingInputs
  /\ dom \in SUBSET DomIds
  /\ activeId = EmptyStr
  /\ isOpen = FALSE
  /\ changes = 0
  /\ seen = FALSE
  /\ flatHeadings = << >>
  /\ err = FALSE
  /\ mounted = FALSE
  /\ observers = << >>
  /\ cleanup = NoCleanup
  /\ last = [op |-> "unrendered"]
  /\ ScrollIdle
  /\ OutsideIdle

\* the render pass of the environment: renderToString on the server, the
\* first render and effect run elsewhere
RenderPass ==
  /\ last.op = "unrendered"
  /\ LET m == firstRenderIn(env, headings, dom)
     IN  /\ flatHeadings' = m.flatHeadings
         /\ err' = m.err
         /\ mounted' = m.mounted
         /\ observers' = m.observers
         /\ cleanup' = m.cleanup
         /\ last' = [op |-> "rendered", lookups |-> m.lookups,
                     html |-> render(headings, m.flatHeadings, activeId, isOpen)]
  /\ UNCHANGED <<headings, dom, activeId, isOpen, changes, seen, env, scrollVars,
                 themeVars, giscusVars, resumeVars>>

NextEnv == RenderPass

SpecEnv == InitEnv /\ [][NextEnv]_vars

(***************************************************************************)
(* The page under the observer.  Lengths are in units of 40px.  The        *)
(* observer's root is the viewport shrunk by rootMargin                    *)
(* '-80px 0px -80% 0px': the band from 80px below the top of the viewport  *)
(* down to 20% of its height.  With threshold 0 an element intersects as   *)
(* soon as its box touches the band.  The style sheets are not part of the *)
(* sources: the scroll margin of the headings is 0 or 80px.                *)
(***************************************************************************)
\* the top margin of rootMargin, 80px
RootMarginTop == 2

\* the bottom margin of rootMargin, in percent of the viewport's height
RootMarginBottomPct == 80

\* frames of a smooth scroll move the page by up to this many units
MaxStep == 2

\* pages of 1040px seen through a viewport of 800px: heading a at 120px,
\* heading b close below it or near the end of the page
Layouts ==
  {[y |-> [id \in DomIds |-> IF id = <<"a">> THEN 3 ELSE yb],
    h |-> 1, margin |-> m, page |-> 26, viewport |-> 20] :
   yb \in {5, 22}, m \in {0, 2}}

maxScroll(l) == l.page - l.viewport

\* the element id intersects the root of the observer at scroll position s
isIntersecting(l, id, s) ==
  LET top == s + RootMarginTop
      bottom == s + l.viewport - ((l.viewport * RootMarginBottomPct) \div 100)
  IN  l.y[id] + l.h >= top /\ l.y[id] <= bottom

\* where scrollIntoView({ block: 'start' }) brings the page for element id
scrollTarget(l, id) ==
  LET want == IF l.y[id] >= l.margin THEN l.y[id] - l.margin ELSE 0
  IN  IF want > maxScroll(l) THEN maxScroll(l) ELSE want

\* one frame of a smooth scroll from s towards t
toward(s, t, k) ==
  IF t >= s THEN (IF s + k > t THEN t ELSE s + k)
  ELSE (IF s - t <= k THEN t ELSE s - k)

Moving == scrollTo.set /\ scrollY # scrollTo.y

\* the elements of the current observer, in the order they were observed
\* (the ids of ScrollHeadings are distinct)
currentElements == IF cleanup.set THEN cleanup.elements ELSE << >>

ScrollHeadings ==
  {Arr(<<Node(HashA, Undef), Node(HashB, Undef)>>),
   Arr(<<Node(HashA, Arr(<<Node(HashB, Undef)>>))>>)}

InitScroll ==
  \E h \in ScrollHeadings :
    LET m == firstRender(h, DomIds)
    IN  /\ headings = h
        /\ dom = DomIds
        /\ activeId = EmptyStr
        /\ isOpen = FALSE
        /\ changes = 0
        /\ seen = FALSE
        /\ flatHeadings = m.flatHeadings
        /\ err = m.err
        /\ mounted = m.mounted
        /\ observers = m.observers
        /\ cleanup = m.cleanup
        /\ last = [op |-> "setup"]
        /\ env = "browser"
        /\ layout \in Layouts
        /\ scrollY \in 0..maxScroll(layout)
        /\ scrollTo = NoScroll
        /\ reported = NoneReported
        /\ OutsideIdle

(***************************************************************************)
(* One frame of the browser: a pending smooth scroll advances by up to k   *)
(* units, then the observer compares each observed element with what it    *)
(* last reported of it and queues an entry for each one that changed (the  *)
(* first frame after observe reports every element).  The callback of the  *)
(* previous frame has run by then.                                         *)
(***************************************************************************)
Frame(k) ==
  /\ mounted
  /\ cleanup.set
  /\ TotalQueued(observers) = 0
  /\ LET s == IF Moving THEN toward(scrollY, scrollTo.y, k) ELSE scrollY
         now(id) == IF isIntersecting(layout, id, s) THEN "in" ELSE "out"
         els == SelectSeq(currentElements, LAMBDA e : reported[e.id] # now(e.id))
     IN  /\ Moving \/ Len(els) > 0
         /\ scrollY' = s
         /\ reported' = [id \in DomIds |->
                          IF id \in observers[cleanup.observer].targets
                          THEN now(id) ELSE reported[id]]
         /\ observers' = [observers EXCEPT ![cleanup.observer].queue =
                            [i \in 1..Len(els) |->
                              [target |-> els[i].id,
                               isIntersecting |-> now(els[i].id) = "in"]]]
  /\ last' = [op |-> "other"]
  /\ UNCHANGED <<headings, flatHeadings, activeId, isOpen, mounted, err, dom,
                 cleanup, changes, seen, env, layout, scrollTo, themeVars,
                 giscusVars, resumeVars>>

\* a click on the i-th link, with the scroll that scrollIntoView starts
ScrollClick(i) ==
  /\ mounted
  /\ ~Moving
  /\ i \in 1..Len(renderedLinks(output))
  /\ LET item == [url |-> renderedLinks(output)[i].href]
         r == onClick(item, dom)
     IN  /\ last' = [op |-> "click", link |-> i, url |-> item.url,
                     defaultPrevented |-> r.defaultPrevented,
                     threw |-> r.threw,
                     lookup |-> r.lookup, scrolls |-> r.scrolls]
         /\ scrollTo' = IF r.scrolls = << >> THEN scrollTo
                        ELSE [set |-> TRUE, id |-> r.scrolls[1].target,
                              y |-> scrollTarget(layout, r.scrolls[1].target)]
  /\ UNCHANGED <<headings, flatHeadings, activeId, isOpen, mounted, err, dom,
                 observers, cleanup, changes, seen, env, layout, scrollY,
                 reported, themeVars, giscusVars, resumeVars>>

NextScroll ==
  \/ \E k \in 1..MaxStep : Frame(k)
  \/ \E o \in 1..(MaxChanges + 1) : Deliver(o)
  \/ \E i \in 1..Len(renderedLinks(output)) : ScrollClick(i)

SpecScroll == InitScroll /\ [][NextScroll]_vars

(***************************************************************************)
(* ThemeToggle (theme-toggle.js, lines 3-38) and the theme-init script of  *)
(* onRenderBody (lines 310-319).  The theme lives in three places: the     *)
(* state of the component, the data-theme attribute of the root element    *)
(* and the localStorage key 'theme'.  A localStorage that cannot be used   *)
(* throws at every access.                                                 *)
(***************************************************************************)
\* a page without TableOfContents
TocIdle ==
  /\ headings = Undef
  /\ flatHeadings = << >>
  /\ activeId = EmptyStr
  /\ isOpen = FALSE
  /\ mounted = FALSE
  /\ err = FALSE
  /\ dom = {}
  /\ observers = << >>
  /\ cleanup = NoCleanup
  /\ changes = 0
  /\ seen = FALSE
  /\ last = [op |-> "other"]
  /\ env = "browser"
  /\ ScrollIdle

\* what localStorage may hold under 'theme' when the page loads: nothing, a
\* theme, 'system', the empty string, or a value no toggle ever wrote
StoredValues == {Absent, "", "system", "light", "dark", "blue"}

\* a toggle between light and dark only
toggleThemeTwoState(t) == IF t = "light" THEN "dark" ELSE "light"

\* toggleTheme: the newTheme computed from the current theme
toggleTheme(t) ==
  IF t = "system" THEN "light"
  ELSE IF t = "light" THEN "dark"
  ELSE "system"

\* an applyTheme that leaves the stored theme when going back to system
applyThemeKeepStored(newTheme, stored) ==
  IF newTheme = "system"
  THEN [dataTheme |-> Absent, storage |-> stored]
  ELSE [dataTheme |-> newTheme, storage |-> newTheme]

\* applyTheme: the attribute and the storage key after it
applyTheme(newTheme, stored) ==
  IF newTheme = "system"
  THEN [dataTheme |-> Absent, storage |-> Absent]
  ELSE [dataTheme |-> newTheme, storage |-> newTheme]

\* localStorage.getItem('theme') || 'system'
savedTheme(stored) == IF stored \in {Absent, ""} THEN "system" ELSE stored

\* the init script without its try/catch
themeInitScriptNoCatch(stored, ok, attr) ==
  IF ~ok THEN [dataTheme |-> attr, threw |-> TRUE]
  ELSE IF stored \notin {Absent, ""} /\ stored # "system"
  THEN [dataTheme |-> stored, threw |-> FALSE]
  ELSE [dataTheme |-> attr, threw |-> FALSE]

\* the init script: the attribute after it, and whether an exception left it
themeInitScript(stored, ok, attr) ==
  IF ~ok THEN [dataTheme |-> attr, threw |-> FALSE]
  ELSE IF stored \notin {Absent, ""} /\ stored # "system"
  THEN [dataTheme |-> stored, threw |-> FALSE]
  ELSE [dataTheme |-> attr, threw |-> FALSE]

InitTheme ==
  /\ TocIdle
  /\ storage \in StoredValues
  /\ storageOk \in BOOLEAN
  /\ phase = "loading"
  /\ theme = "system"
  /\ themeMounted = FALSE
  /\ dataTheme = Absent
  /\ themeErr = FALSE
  /\ scriptErr = FALSE
  /\ chosen = Absent
  /\ trail = << >>
  /\ giscusTheme = "light"
  /\ giscusMounted = FALSE
  /\ moConnected = FALSE
  /\ mqListening = FALSE
  /\ pendingMutation = FALSE
  /\ pendingScheme = FALSE
  /\ systemDark \in BOOLEAN
  /\ ResumeIdle

\* root.setAttribute queues a mutation record at every call, and
\* root.removeAttribute when the attribute was there, for an observer that
\* observes the root element
mutationQueued(newTheme, attr) ==
  moConnected /\ (newTheme # "system" \/ attr # Absent)

\* the pre-body script runs while the page loads
InitScript ==
  /\ phase = "loading"
  /\ LET r == themeInitScript(storage, storageOk, dataTheme)
     IN  /\ dataTheme' = r.dataTheme
         /\ scriptErr' = r.threw
         /\ phase' = IF r.threw THEN "aborted" ELSE "scripted"
  /\ UNCHANGED <<theme, themeMounted, storage, storageOk, themeErr, chosen, trail>>
  /\ UNCHANGED <<tocVars, giscusVars, resumeVars>>

\* the mount effect of ThemeToggle: setMounted(true), the saved theme is read,
\* set and applied; localStorage.getItem that throws leaves the effect
ThemeMount ==
  /\ phase = "scripted"
  /\ IF storageOk
     THEN LET saved == savedTheme(storage)
              a == applyTheme(saved, storage)
          IN  /\ themeMounted' = TRUE
              /\ theme' = saved
              /\ dataTheme' = a.dataTheme
              /\ storage' = a.storage
              /\ phase' = "mounted"
              /\ pendingMutation' = (pendingMutation \/ mutationQueued(saved, dataTheme))
              /\ UNCHANGED themeErr
     ELSE /\ themeErr' = TRUE
          /\ phase' = "crashed"
          /\ UNCHANGED <<themeMounted, theme, dataTheme, storage, pendingMutation>>
  /\ UNCHANGED <<storageOk, scriptErr, chosen, trail>>
  /\ UNCHANGED <<giscusTheme, giscusMounted, moConnected, mqListening,
                 pendingScheme, systemDark>>
  /\ UNCHANGED <<tocVars, resumeVars>>

\* a click on the button: toggleTheme
ToggleTheme ==
  /\ phase = "mounted"
  /\ LET newTheme == toggleTheme(theme)
         a == applyTheme(newTheme, storage)
     IN  /\ theme' = newTheme
         /\ dataTheme' = a.dataTheme
         /\ storage' = a.storage
         /\ chosen' = newTheme
         /\ pendingMutation' = (pendingMutation \/ mutationQueued(newTheme, dataTheme))
  /\ trail' = (IF Len(trail) = 3 THEN Tail(trail) ELSE trail) \o <<theme>>
  /\ UNCHANGED <<themeMounted, storageOk, phase, themeErr, scriptErr>>
  /\ UNCHANGED <<giscusTheme, giscusMounted, moConnected, mqListening,
                 pendingScheme, systemDark>>
  /\ UNCHANGED <<tocVars, resumeVars>>

\* the page is loaded again: a new document, the same localStorage
Reload ==
  /\ phase \in {"mounted", "crashed"}
  /\ phase' = "loading"
  /\ dataTheme' = Absent
  /\ theme' = "system"
  /\ themeMounted' = FALSE
  /\ themeErr' = FALSE
  /\ scriptErr' = FALSE
  /\ trail' = << >>
  /\ giscusTheme' = "light"
  /\ giscusMounted' = FALSE
  /\ moConnected' = FALSE
  /\ mqListening' = FALSE
  /\ pendingMutation' = FALSE
  /\ pendingScheme' = FALSE
  /\ UNCHANGED <<storage, storageOk, chosen, systemDark>>
  /\ UNCHANGED <<tocVars, resumeVars>>

(***************************************************************************)
(* The comments theme of BlogPostTemplate (part_000, lines 17-78).         *)
(***************************************************************************)
\* a getGiscusTheme that follows the system preference only
getGiscusThemeSystemOnly(attr, dark) == IF dark THEN "dark" ELSE "light"

\* getGiscusTheme: the manual theme when it is dark or light, else the
\* system preference
getGiscusTheme(attr, dark) ==
  IF attr = "dark" \/ attr = "light" THEN attr
  ELSE IF dark THEN "dark"
  ELSE "light"

\* the cleanup of the effect: observer.disconnect(), which also drops the
\* records not yet delivered, and removeEventListener
giscusCleanup ==
  [moConnected |-> FALSE, mqListening |-> FALSE, pendingMutation |-> FALSE]

\* the template is mounted, before or after the mount effect of ThemeToggle:
\* the effect sets the initial theme, observes the root element and listens
\* to the media query; localStorage.getItem that throws leaves the effect
GiscusMount ==
  /\ phase \in {"scripted", "mounted"}
  /\ ~giscusMounted
  /\ IF storageOk
     THEN /\ giscusMounted' = TRUE
          /\ giscusTheme' = getGiscusTheme(dataTheme, systemDark)
          /\ moConnected' = TRUE
          /\ mqListening' = TRUE
          /\ UNCHANGED phase
     ELSE /\ phase' = "crashed"
          /\ UNCHANGED <<giscusMounted, giscusTheme, moConnected, mqListening>>
  /\ UNCHANGED <<theme, themeMounted, dataTheme, storage, storageOk, themeErr,
                 scriptErr, chosen, trail>>
  /\ UNCHANGED <<pendingMutation, pendingScheme, systemDark>>
  /\ UNCHANGED <<tocVars, resumeVars>>

\* the template is unmounted: the cleanup runs, the state is gone
GiscusUnmount ==
  /\ giscusMounted
  /\ giscusMounted' = FALSE
  /\ moConnected' = giscusCleanup.moConnected
  /\ mqListening' = giscusCleanup.mqListening
  /\ pendingMutation' = giscusCleanup.pendingMutation
  /\ UNCHANGED <<giscusTheme, pendingScheme, systemDark>>
  /\ UNCHANGED <<tocVars, themeVars, resumeVars>>

\* the MutationObserver callback runs on the queued records: updateTheme
MutationDeliver ==
  /\ pendingMutation
  /\ pendingMutation' = FALSE
  /\ giscusTheme' = (IF giscusMounted THEN getGiscusTheme(dataTheme, systemDark)
                     ELSE giscusTheme)
  /\ UNCHANGED <<giscusMounted, moConnected, mqListening, pendingScheme, systemDark>>
  /\ UNCHANGED <<tocVars, themeVars, resumeVars>>

\* the system colour scheme changes; the media query queues a 'change' event
SchemeChange ==
  /\ ~pendingScheme
  /\ systemDark' = ~systemDark
  /\ pendingScheme' = TRUE
  /\ UNCHANGED <<giscusTheme, giscusMounted, moConnected, mqListening,
                 pendingMutation>>
  /\ UNCHANGED <<tocVars, themeVars, resumeVars>>

\* the 'change' event is dispatched to the listeners registered by then:
\* handleChange calls updateTheme
SchemeDeliver ==
  /\ pendingScheme
  /\ pendingScheme' = FALSE
  /\ giscusTheme' = (IF mqListening /\ giscusMounted
                     THEN getGiscusTheme(dataTheme, systemDark)
                     ELSE giscusTheme)
  /\ UNCHANGED <<giscusMounted, moConnected, mqListening, pendingMutation, systemDark>>
  /\ UNCHANGED <<tocVars, themeVars, resumeVars>>

NextTheme ==
  \/ InitScript
  \/ ThemeMount
  \/ ToggleTheme
  \/ Reload
  \/ GiscusMount
  \/ GiscusUnmount
  \/ MutationDeliver
  \/ SchemeChange
  \/ SchemeDeliver

SpecTheme == InitTheme /\ [][NextTheme]_vars

(***************************************************************************)
(* Resume (service.js, lines 73-148): the list of experiences, its first   *)
(* three entries while collapsed.                                          *)
(***************************************************************************)
\* experiences given to Resume: at most this many
MaxExperiences == 4

\* the experiences an entry is drawn from
ExperienceIds == 1..3

\* experiences.slice(0, 3)
slice3(xs) == SubSeq(xs, 1, IF Len(xs) < 3 THEN Len(xs) ELSE 3)

\* a list that marks its last displayed entry as partial
resumeRenderPartialLast(xs, all) ==
  LET displayed == IF all THEN xs ELSE slice3(xs)
  IN  [index \in 1..Len(displayed) |->
        [experience |-> displayed[index],
         partial |-> (index = Len(displayed) /\ ~all)]]

\* the entries Resume renders: displayedExperiences.map, with the partial
\* class on index === 2 (the third entry) when !showAll
resumeRender(xs, all) ==
  LET displayed == IF all THEN xs ELSE slice3(xs)
  IN  [index \in 1..Len(displayed) |->
        [experience |-> displayed[index],
         partial |-> (index - 1 = 2 /\ ~all)]]

InitResume ==
  /\ TocIdle
  /\ ThemeIdle
  /\ GiscusIdle
  /\ experiences \in UNION {[1..n -> ExperienceIds] : n \in 0..MaxExperiences}
  /\ showAll = FALSE

\* the show-more button: setShowAll(!showAll)
ShowMore ==
  /\ showAll' = ~showAll
  /\ UNCHANGED experiences
  /\ UNCHANGED <<tocVars, themeVars, giscusVars>>

NextResume == ShowMore

SpecResume == InitResume /\ [][NextResume]_vars

Next ==
  \/ \E h \in HeadingInputs, keep \in BOOLEAN : SetHeadings(h, keep)
  \/ \E keep \in BOOLEAN : Unmount(keep)
  \/ \E o \in 1..(MaxChanges + 1), id \in DomIds, b \in BOOLEAN : Notify(o, id, b)
  \/ \E o \in 1..(MaxChanges + 1) : Deliver(o)
  \/ Toggle
  \/ \E id \in DomIds : Attach(id)
  \/ \E i \in 1..Len(renderedLinks(output)) : Click(i)

Spec == Init /\ [][Next]_vars


(***************************************************************************)
(* Notions the properties are stated with.                                 *)
(***************************************************************************)
\* the positions of the flattened list whose id is a
Matching(flat, a) == {i \in 1..Len(flat) : flat[i].id = a}

\* no two entries of the flattened list share an id
UniqueIds(flat) ==
  \A i, j \in 1..Len(flat) : flat[i].id = flat[j].id => i = j

\* no two entries of the flattened list share an anchor
UniqueAnchors(flat) ==
  \A i, j \in 1..Len(flat) : flat[i].url = flat[j].url => i = j

\* the observer of the current effect run, if any
IsCurrent(o) == cleanup.set /\ cleanup.observer = o

\* the elements observed by any observer
Observed == UNION {observers[o].targets : o \in 1..Len(observers)}

\* the positions of the rendered links that carry the active class
Highlighted ==
  LET L == renderedLinks(output) IN {i \in 1..Len(L) : L[i].active}

\* headings is absent, empty or no sequence
NoHeadings == headings.t # "array" \/ headings = Arr(<< >>)

\* the items of a node, as a sequence
Children(node) == IF node.items.t = "array" THEN node.items.v ELSE << >>

RECURSIVE PathsOf(_)

\* the nodes of a forest, each named by its path of sibling positions
PathsOf(f) ==
  UNION {{<<i>>} \cup {<<i>> \o p : p \in PathsOf(Children(f[i]))} :
         i \in 1..Len(f)}

RECURSIVE NodeAt(_, _)

NodeAt(f, p) ==
  IF Len(p) = 1 THEN f[p[1]] ELSE NodeAt(Children(f[p[1]]), Tail(p))

\* document order: an ancestor before its descendants, a node's subtree
\* before its later siblings
Before(p, q) ==
  \/ Len(p) < Len(q) /\ SubSeq(q, 1, Len(p)) = p
  \/ \E k \in 1..Len(p) :
       /\ k <= Len(q)
       /\ SubSeq(p, 1, k - 1) = SubSeq(q, 1, k - 1)
       /\ p[k] < q[k]

\* a tree all of whose anchors are '#' followed by the id
Anchored(h) ==
  /\ h.t = "array"
  /\ \A p \in PathsOf(h.v) :
       LET n == NodeAt(h.v, p)
       IN  /\ n.url.t = "string"
           /\ Len(n.url.v) > 0
           /\ n.url.v[1] = "#"
           /\ n.items.t \in {"undefined", "array"}

\* the tree [a[a1], b] of the specification's example
ExampleTree ==
  Arr(<<Node(HashA, Arr(<<Node(HashA1, Undef)>>)), Node(HashB, Undef)>>)

\* the id of the last intersecting entry of a batch, or a when there is none
LastIntersecting(entries, a) ==
  LET hits == {i \in 1..Len(entries) : entries[i].isIntersecting}
  IN  IF hits = {} THEN a
      ELSE Str(entries[CHOOSE i \in hits : \A j \in hits : j <= i].target)

(***************************************************************************)
(* The properties.                                                         *)
(***************************************************************************)

\* C1: once an intersection notification has set it, activeId is none or the
\* id of exactly one entry of the CURRENT flattened list, also after the
\* headings were replaced by a tree without the active id.  (Stated for the
\* states that no delivery has just led to: a late delivery is C2's case.)
C1_ActiveIdInCurrentList ==
  (mounted /\ seen /\ UniqueIds(flatHeadings) /\ last.op # "deliver")
    => \/ activeId = EmptyStr
       \/ Cardinality(Matching(flatHeadings, activeId)) = 1

\* C2: a delivery to the callback of a disposed observer (its cleanup has
\* run) does not change activeId, also when the entries were queued before
\* the disposal.
C2_NoUpdateAfterDispose ==
  (last.op = "deliver" /\ last.disposed) => activeId = last.before

\* C3: every observer but the one of the current effect run observes
\* nothing, and every observed element belongs to the current flattened
\* list; after the unmount nothing is observed.
C3_HandlesReleased ==
  /\ \A o \in 1..Len(observers) : IsCurrent(o) \/ observers[o].targets = {}
  /\ \A id \in Observed : Matching(flatHeadings, Str(id)) # {}
  /\ ~mounted => Observed = {}

\* C3 witness: the headings were changed, the old observer still holds a
\* queued entry of an element that left the list and observes nothing, and
\* a new observer observes the elements of the new list.
C3_Witness ==
  /\ mounted /\ changes = 1 /\ Len(observers) = 2 /\ IsCurrent(2)
  /\ observers[2].targets # {}
  /\ observers[1].targets = {}
  /\ \E i \in 1..Len(observers[1].queue) :
       Matching(flatHeadings, Str(observers[1].queue[i].target)) = {}

\* C4: once the tracker is disposed while the component stays mounted (the
\* cleanup has run and the new tree gave nothing to observe), no error was
\* raised and activeId is none.  (Stated for the states that no delivery
\* has just led to: a late delivery is C2's case.)
C4_DisposedLeavesNone ==
  (mounted /\ Len(observers) > 0 /\ ~cleanup.set /\ last.op # "deliver")
    => (~err /\ activeId = EmptyStr)

\* C5: the flattened list holds one {id, url} entry per node of the tree, in
\* document order (parent before children, siblings in input order); the
\* tree [a[a1], b] gives [a, a1, b].
C5_FlattenIsPreOrder ==
  (last.op # "unrendered" /\ Anchored(headings))
    => LET P == PathsOf(headings.v)
           Rank(p) == Cardinality({q \in P : Before(q, p)}) + 1
       IN  /\ ~err
           /\ Len(flatHeadings) = Cardinality(P)
           /\ \A p \in P :
                flatHeadings[Rank(p)] =
                  [id |-> Str(Tail(NodeAt(headings.v, p).url.v)),
                   url |-> NodeAt(headings.v, p).url]
           /\ headings = ExampleTree
                => [i \in 1..3 |-> flatHeadings[i].id.v] =
                     <<<<"a">>, <<"a", "1">>, <<"b">>>>

\* C5 witness: the example tree has been flattened to [a, a1, b].
C5_Witness ==
  /\ last.op # "unrendered"
  /\ headings = ExampleTree
  /\ Len(flatHeadings) = 3
  /\ flatHeadings[2].id = Str(<<"a", "1">>)

\* C6: flattening undefined, null, [] or a value that is no array gives the
\* empty list and throws nothing.
C6_NoHeadingsFlattenEmpty ==
  (last.op # "unrendered" /\ NoHeadings) => (flatHeadings = << >> /\ ~err /\ mounted)

\* C6 witness: a headings value that is a string has been flattened.
C6_Witness ==
  /\ last.op # "unrendered"
  /\ headings = Str(<<"x">>)
  /\ flatHeadings = << >>
  /\ ~err

\* C7: with headings absent, empty or no sequence the component renders
\* nothing at all and observes nothing.
C7_NoHeadingsRenderNothing ==
  (mounted /\ NoHeadings)
    => (output = Null /\ ~cleanup.set /\ Observed = {} /\ ~err)

\* C7 witness: headings that were observed have been replaced by undefined.
C7_Witness ==
  /\ mounted /\ changes = 1 /\ Len(observers) = 1
  /\ headings = Undef
  /\ output = Null

\* C8: under unique anchors the highlighted links are exactly the nodes whose
\* id equals activeId, at most one, and none while activeId is none.
C8_HighlightMatchesActive ==
  (mounted /\ UniqueAnchors(flatHeadings))
    => /\ activeId # EmptyStr => Highlighted = Matching(flatHeadings, activeId)
       /\ activeId = EmptyStr => Highlighted = {}
       /\ Cardinality(Highlighted) <= 1

\* C9: a delivered batch is applied in order and its last intersecting entry
\* wins; entries that do not intersect leave activeId as it was.
C9_LastIntersectingWins ==
  (last.op = "deliver" /\ mounted)
    => activeId = LastIntersecting(last.entries, last.before)

\* C9 witness: a batch of two intersecting entries of different headings has
\* been delivered and the second one is active.
C9_Witness ==
  /\ last.op = "deliver" /\ mounted
  /\ Len(last.entries) = 2
  /\ last.entries[1].isIntersecting /\ last.entries[2].isIntersecting
  /\ last.entries[1].target # last.entries[2].target
  /\ activeId = Str(last.entries[2].target)

\* C10 as claimed: activeId is none while no heading was seen intersecting,
\* and again once all observed headings are out of the band.  (Stated for
\* the first tree with a single observed heading: every entry is delivered
\* and the last one says that the heading does not intersect.)
C10_NoneWhenAllOut ==
  (mounted /\ changes = 0)
    => /\ ~seen => activeId = EmptyStr
       /\ ( /\ last.op = "deliver"
            /\ Cardinality(Observed) = 1
            /\ TotalQueued(observers) = 0
            /\ ~last.entries[Len(last.entries)].isIntersecting )
            => activeId = EmptyStr

\* C10 amended: activeId is none exactly as long as no intersecting entry has
\* reached the component; a heading leaving the band never resets it.
C10_NoneUntilFirstIntersection ==
  (activeId = EmptyStr) <=> ~seen

\* C10 witness: the only observed heading was active before the delivery,
\* the delivered entry says that it left the band, nothing is queued, and
\* activeId is still its id.
C10_Witness ==
  /\ mounted /\ cleanup.set /\ seen
  /\ last.op = "deliver"
  /\ Cardinality(Observed) = 1
  /\ last.before # EmptyStr
  /\ Len(last.entries) = 1
  /\ ~last.entries[1].isIntersecting
  /\ Str(last.entries[1].target) = last.before
  /\ TotalQueued(observers) = 0
  /\ activeId = last.before

\* the scroll request the click handler issues for the element id
SmoothScroll(id) == [target |-> id, behavior |-> "smooth", block |-> "start"]

\* the anchor with its leading fragment marker stripped, for a '#'-anchor
Stripped(url) == Tail(url.v)

\* the url is a string that starts with the fragment marker
IsAnchor(url) == url.t = "string" /\ Len(url.v) > 0 /\ url.v[1] = "#"

\* C11: a click on a link always prevents the default navigation; when the
\* element whose id is the link's anchor without its fragment marker exists,
\* exactly one scroll request is issued, smooth and aligned to start, for
\* that element; otherwise none is issued.
C11_ClickScrollsToTarget ==
  (last.op = "click")
    => /\ last.defaultPrevented
       /\ IF IsAnchor(last.url) /\ Stripped(last.url) \in dom
          THEN last.scrolls = <<SmoothScroll(Stripped(last.url))>>
          ELSE last.scrolls = << >>

\* C11 witness: the second link of a list was clicked, its element exists
\* beside another heading's element, and the request is for its element.
C11_Witness ==
  /\ last.op = "click" /\ last.link = 2
  /\ last.url = HashB
  /\ dom = DomIds
  /\ last.scrolls = <<SmoothScroll(<<"b">>)>>

\* C12: a click leaves activeId, isOpen, the flattened list and the observed
\* elements as they were, and activeId changes in delivery steps only.
C12_ClickFrame ==
  [][ /\ last'.op = "click"
           => /\ activeId' = activeId
              /\ isOpen' = isOpen
              /\ flatHeadings' = flatHeadings
              /\ observers' = observers
              /\ cleanup' = cleanup
      /\ activeId' # activeId => last'.op = "deliver" ]_vars

\* C12 witness: a link of a heading that is observed and is not the active
\* one was clicked, a scroll was requested, and activeId is still another id.
C12_Witness ==
  /\ last.op = "click"
  /\ last.scrolls # << >>
  /\ last.scrolls[1].target \in Observed
  /\ activeId # EmptyStr
  /\ activeId # Str(last.scrolls[1].target)

\* C13: a step that changes the expansion of the panel changes neither
\* activeId nor the flattened list nor the observed elements, and a step that
\* changes activeId does not change the expansion.
C13_ToggleIndependence ==
  [][ /\ isOpen' # isOpen
           => /\ activeId' = activeId
              /\ flatHeadings' = flatHeadings
              /\ observers' = observers
              /\ cleanup' = cleanup
      /\ activeId' # activeId => isOpen' = isOpen ]_vars

\* C13 witness: the panel was opened while a heading was active and is
\* observed, and the heading is still the active one.
C13_Witness ==
  /\ last.op = "toggle" /\ isOpen
  /\ activeId # EmptyStr
  /\ activeId.v \in Observed

\* C14: the panel starts closed, a toggle step flips isOpen, and no other
\* step (delivery, click, change of the headings, unmount) changes it.
C14_OnlyToggleFlips ==
  /\ isOpen = FALSE
  /\ [][ IF last'.op = "toggle"
         THEN isOpen' = ~isOpen /\ last'.before = isOpen
         ELSE isOpen' = isOpen ]_vars

\* C14 witness: after a change of the headings and a delivery, a toggle has
\* closed the panel again (it was opened by an earlier toggle).
C14_Witness ==
  /\ last.op = "toggle" /\ last.before /\ ~isOpen
  /\ changes = 1 /\ seen

\* the elements the document d holds for the ids of the flattened list
ExistingTargets(flat, d) ==
  {id \in d : \E i \in 1..Len(flat) : flat[i].id = Str(id)}

\* the observers that observe at least one element
Live == {o \in 1..Len(observers) : observers[o].targets # {}}

\* C15: right after an effect run the observed elements are exactly the
\* elements that exist for ids of the flattened list; an id without an
\* element is skipped, raises nothing and does not stop the others.
C15_MissingTargetSkipped ==
  (last.op = "setup")
    => /\ mounted /\ ~err
       /\ Observed = ExistingTargets(flatHeadings, dom)

\* C15 witness: the list is [a, b], only b has an element, and b is observed.
C15_Witness ==
  /\ last.op = "setup"
  /\ Len(flatHeadings) = 2
  /\ flatHeadings[1].id = Str(<<"a">>) /\ flatHeadings[2].id = Str(<<"b">>)
  /\ dom = {<<"b">>}
  /\ Observed = {<<"b">>}

\* C16: whenever the flattened list is not empty, every element that exists
\* for one of its ids is observed, also an element attached to the document
\* after the component was mounted.
C16_TrackingWheneverTargetExists ==
  (mounted /\ Len(flatHeadings) > 0)
    => ExistingTargets(flatHeadings, dom) \subseteq Observed

\* C17: at most one observer observes elements: when the headings change,
\* the elements of the old list are released before those of the new list
\* are observed.
C17_OldReleasedBeforeNew ==
  \A o1, o2 \in Live : o1 = o2

\* C17 witness: the list [a, b] was replaced by [a]: the first observer
\* observes nothing any more and the second one observes a.
C17_Witness ==
  /\ last.op = "setup" /\ changes = 1
  /\ Len(observers) = 2
  /\ Len(cleanup.elements) = 1
  /\ dom = DomIds
  /\ Live = {2}
  /\ observers[2].targets = {<<"a">>}

\* C18: in every state the flattened list is the flattening of the current
\* headings (empty when they are no array), and it changes only in a step
\* that changes the headings.
C18_FlatNeverStale ==
  /\ [](mounted => flatHeadings = (IF headings.t = "array"
                                    THEN flatten(headings).v ELSE << >>))
  /\ [][flatHeadings' # flatHeadings => headings' # headings]_vars

\* C18 witness: the headings were replaced, an entry of an element of the
\* old list only is still queued, and the list is that of the new headings.
C18_Witness ==
  /\ mounted /\ changes = 1
  /\ Len(flatHeadings) = 2
  /\ Len(observers) > 0
  /\ observers[1].queue # << >>
  /\ \A i \in 1..Len(flatHeadings) :
       flatHeadings[i].id # Str(observers[1].queue[1].target)

C20_NoTargetsNoTracking ==
  (mounted /\ ExistingTargets(flatHeadings, dom) = {})
    => /\ ~cleanup.set
       /\ Observed = {}
       /\ ~err
       /\ activeId = EmptyStr

RECURSIVE OlPaths(_)

\* the <li> of a rendered list, each named by its path of positions
OlPaths(ol) ==
  IF ol.t # "ol" THEN {}
  ELSE UNION {{<<i>>} \cup {<<i>> \o p : p \in OlPaths(ol.li[i].list)} :
              i \in 1..Len(ol.li)}

RECURSIVE OlAt(_, _)

OlAt(ol, p) ==
  IF Len(p) = 1 THEN ol.li[p[1]] ELSE OlAt(ol.li[p[1]].list, Tail(p))

\* C22: the rendered list has one link per node of the tree, at the node's
\* place (same depth, same position among its siblings), and the links in
\* document order carry the urls of the flattened list in its order.
C22_RenderPreservesNesting ==
  (last.op # "unrendered" /\ mounted /\ headings.t = "array")
    => LET L == renderedLinks(output)
           ol == IF output.t = "nav" THEN output.content ELSE Null
       IN  /\ Len(L) = Len(flatHeadings)
           /\ \A i \in 1..Len(L) : L[i].href = flatHeadings[i].url
           /\ OlPaths(ol) = PathsOf(headings.v)
           /\ \A p \in OlPaths(ol) : OlAt(ol, p).href = NodeAt(headings.v, p).url

\* C22 witness: the tree [a[a1], b] is rendered with three links, a1 nested
\* under a.
C22_Witness ==
  /\ last.op # "unrendered" /\ mounted
  /\ headings = ExampleTree
  /\ Len(renderedLinks(output)) = 3
  /\ OlPaths(output.content) = {<<1>>, <<1, 1>>, <<2>>}
  /\ OlAt(output.content, <<1, 1>>).href = HashA1

\* the scroll has ended and the observer has reported and delivered all
Settled ==
  /\ ~Moving
  /\ TotalQueued(observers) = 0
  /\ \A id \in Observed :
       reported[id] = (IF isIntersecting(layout, id, scrollY) THEN "in" ELSE "out")

\* C23: once the scroll started by a click on the link of an observed
\* heading has ended and every entry it caused was delivered, activeId is
\* the id of that heading.
C23_ClickedBecomesActive ==
  (mounted /\ scrollTo.set /\ scrollTo.id \in Observed /\ Settled)
    => activeId = Str(scrollTo.id)

\* the tree with the anchor #a twice
DupTree == Arr(<<Node(HashA, Undef), Node(HashA, Undef)>>)

\* C24: with the anchor #a twice in the tree nothing throws, at setup,
\* delivery, click or teardown; the element a is observed (once) when it
\* exists, an intersecting entry of its observer makes 'a' the active id
\* (both links are highlighted), a click scrolls to a, and the unmount
\* releases a.
C24_DuplicateAnchorNoCrash ==
  (headings = DupTree /\ (mounted \/ changes = 0))
    => /\ ~err
       /\ ~mounted => Observed = {}
       /\ mounted => Len(renderedLinks(output)) = 2
       /\ last.op = "setup"
            => /\ Observed = dom \cap {<<"a">>}
               /\ \A o \in Live : Cardinality(observers[o].targets) = 1
       /\ (last.op = "deliver" /\ mounted /\ ~last.disposed
             /\ \E i \in 1..Len(last.entries) : last.entries[i].isIntersecting)
            => (activeId = Str(<<"a">>) /\ Highlighted = {1, 2})
       /\ last.op = "click"
            => /\ last.defaultPrevented /\ ~last.threw
               /\ last.scrolls = (IF <<"a">> \in dom THEN <<SmoothScroll(<<"a">>)>>
                                  ELSE << >>)

\* C24 witness: with the duplicated anchor, a was active and observed, its
\* second link was clicked, and both links are highlighted.
C24_Witness ==
  /\ headings = DupTree /\ mounted /\ ~err
  /\ last.op = "click" /\ last.link = 2
  /\ last.scrolls = <<SmoothScroll(<<"a">>)>>
  /\ cleanup.set /\ Len(cleanup.elements) = 2
  /\ Observed = {<<"a">>}
  /\ activeId = Str(<<"a">>)
  /\ Highlighted = {1, 2}

\* C25: a click on a link whose element does not exist, or whose node has
\* no url, prevents the default navigation, requests no scroll and throws
\* nothing.
C25_ClickWithoutTarget ==
  (last.op = "click"
     /\ (last.url.t # "string" \/ replace(last.url.v) \notin dom))
    => /\ last.defaultPrevented
       /\ last.scrolls = << >>
       /\ ~last.threw
       /\ ~err /\ mounted

\* C25 witness: the link of a node without url was clicked on a page that
\* holds heading elements.
C25_Witness ==
  /\ last.op = "click"
  /\ last.url = Undef
  /\ last.lookup = Undef
  /\ dom = DomIds
  /\ last.scrolls = << >>

\* the theme that follows t in the cycle system, light, dark
NextInCycle(t) ==
  CASE t = "system" -> "light"
    [] t = "light" -> "dark"
    [] t = "dark" -> "system"
    [] OTHER -> "system"

\* the value the attribute and the storage key hold for theme t
StoreOf(t) == IF t = "system" THEN Absent ELSE t

\* C26: each toggle moves the theme to the next one of the cycle system,
\* light, dark (a theme outside the cycle is followed by system), and three
\* toggles in a row from a theme of the cycle come back to it.
C26_ThemeCycle ==
  (phase = "mounted" /\ trail # << >>)
    => /\ theme = NextInCycle(trail[Len(trail)])
       /\ \A i \in 1..(Len(trail) - 1) : trail[i + 1] = NextInCycle(trail[i])
       /\ (Len(trail) = 3 /\ trail[1] \in {"system", "light", "dark"})
            => theme = trail[1]

\* C26 witness: three toggles from light have come back to light.
C26_Witness ==
  /\ phase = "mounted"
  /\ trail = <<"light", "dark", "system">>
  /\ theme = "light"

\* C27: once ThemeToggle is mounted, and after every toggle, the attribute
\* and the storage key are both absent when the theme is system and both
\* equal to the theme otherwise.
C27_ThemeStoresAgree ==
  (phase = "mounted")
    => /\ themeMounted
       /\ dataTheme = StoreOf(theme)
       /\ storage = StoreOf(theme)

\* C27 witness: a toggle from dark has selected system, and the attribute and
\* the key are gone.
C27_Witness ==
  /\ phase = "mounted"
  /\ trail # << >> /\ trail[Len(trail)] = "dark"
  /\ theme = "system"
  /\ dataTheme = Absent /\ storage = Absent

\* C28: after toggles and a reload, the init script has restored the
\* attribute of the theme selected last (none for system) before
\* ThemeToggle mounts, and the mount restores the state to that theme; the
\* init script lets no exception out, also when localStorage throws.
C28_ThemeSurvivesReload ==
  /\ ~scriptErr /\ phase # "aborted"
  /\ (phase = "scripted" /\ chosen # Absent) => dataTheme = StoreOf(chosen)
  /\ (phase = "mounted" /\ chosen # Absent /\ trail = << >>)
       => (theme = chosen /\ dataTheme = StoreOf(chosen))

\* C28 witness: dark was selected, the page was loaded again, and the
\* mounted ThemeToggle is back on dark with the attribute set.
C28_Witness ==
  /\ phase = "mounted" /\ trail = << >>
  /\ chosen = "dark"
  /\ theme = "dark" /\ dataTheme = "dark" /\ storage = "dark"

\* the comments theme the attribute and the system preference call for
ExpectedGiscusTheme ==
  CASE dataTheme = "dark" -> "dark"
    [] dataTheme = "light" -> "light"
    [] OTHER -> IF systemDark THEN "dark" ELSE "light"

\* C29: while the template is mounted and no mutation record or change event
\* is waiting, the comments theme is the data-theme attribute when that is
\* dark or light, else dark or light after the system preference; once the
\* template is unmounted the observer is disconnected, the listener is
\* removed, no record is left, and the comments theme changes no more.
C29_GiscusFollowsTheme ==
  /\ []((giscusMounted /\ ~pendingMutation /\ ~pendingScheme)
          => (giscusTheme = ExpectedGiscusTheme /\ moConnected /\ mqListening))
  /\ [](~giscusMounted => (~moConnected /\ ~mqListening /\ ~pendingMutation))
  /\ [][(~giscusMounted /\ ~giscusMounted' /\ phase' # "loading")
          => giscusTheme' = giscusTheme]_vars

\* C29 witness: the theme was toggled back to system while the template was
\* mounted: the record was delivered, the attribute is gone, the system
\* prefers dark and so does the comments theme.
C29_Witness ==
  /\ giscusMounted /\ ~pendingMutation /\ ~pendingScheme
  /\ chosen = "system" /\ dataTheme = Absent
  /\ systemDark
  /\ giscusTheme = "dark"

\* C30: Resume starts collapsed and each click on the button flips the
\* mode; collapsed it shows the first min(3, n) experiences, expanded all n,
\* in input order; the partial style is on the third displayed entry only,
\* and only while collapsed.
C30_ResumeShowsThreeOrAll ==
  /\ showAll = FALSE
  /\ [](LET out == resumeRender(experiences, showAll)
            n == Len(experiences)
        IN  /\ Len(out) = (IF showAll \/ n < 3 THEN n ELSE 3)
            /\ \A i \in 1..Len(out) :
                 /\ out[i].experience = experiences[i]
                 /\ out[i].partial <=> (i = 3 /\ ~showAll))
  /\ [][showAll' = ~showAll /\ experiences' = experiences]_vars

\* C30 witness: four experiences, the list is expanded and shows them all,
\* none of them partial.
C30_Witness ==
  /\ Len(experiences) = 4
  /\ showAll
  /\ Len(resumeRender(experiences, showAll)) = 4
  /\ \A i \in 1..4 : ~resumeRender(experiences, showAll)[i].partial

=============================================================================
